---- MODULE Spec2Model ----
(***************************************************************************)
(* Model of src/src/quic.rs: the blocking QUIC server wrapper              *)
(* (configure_server, EndpointKeyUpdater::update_key, StreamStats::report, *)
(* spawn_server).  The asynchronous server (crate::nonblocking::quic: the  *)
(* accept loop, connection drivers, batch coalescer, connection table) is  *)
(* not part of src/ and is modelled from the design document where a       *)
(* property needs it.                                                      *)
(***************************************************************************)
EXTENDS Integers, Sequences, FiniteSets, TLC

(***************************************************************************)
(* Program constants                                                       *)
(***************************************************************************)
MAX_STAKED_CONNECTIONS == 2000
MAX_UNSTAKED_CONNECTIONS == 500
PACKET_DATA_SIZE == 1232
QUIC_MAX_TIMEOUT_MS == 2000
QUIC_MAX_UNSTAKED_CONCURRENT_STREAMS == 128
ALPN_TPU_PROTOCOL_ID == "solana-tpu"

(***************************************************************************)
(* Bounds of the model                                                     *)
(***************************************************************************)
MaxRotations == 2
MaxConns == 2
MaxAdds == 1
MaxConcAdds == 2
MaxStakedTable == 2
MaxUnstakedTable == 1
MaxPerPeer == 1
MaxStake == 3

Keys == {"K1", "K2", "K3"}
Callers == {"u1", "u2"}
ConnIds == 1..MaxConns

None == <<>>
Some(x) == <<x>>

VARIABLES
  \* spawn_server and the server it starts
  args, pc, ret, nb_result, endpoint, thread, key_updater,
  exit, accept, coalescer, conns,
  \* EndpointKeyUpdater callers and the history of set_server_config
  upd, installs, last_return,
  \* StreamStats
  stats, rep, emitted, added, nAdds, lastReport,
  \* connection table
  staked, unstaked, lastOp

lifeVars == <<args, pc, ret, nb_result, endpoint, thread, key_updater,
              exit, accept, coalescer, conns, upd, installs, last_return>>
statsVars == <<stats, rep, emitted, added, nAdds, lastReport>>
tableVars == <<staked, unstaked, lastOp>>
vars == <<lifeVars, statsVars, tableVars>>

(***************************************************************************)
(* SkipClientVerification and configure_server                             *)
(***************************************************************************)
ClientCerts == {"valid", "self_signed", "expired", "garbage"}

\* SkipClientVerification::verify_client_cert: every certificate is accepted.
verify_client_cert(end_entity, intermediates, now) == "Ok"

\* QUIC_MAX_UNSTAKED_CONCURRENT_STREAMS.saturating_mul(2) as u32: the product
\* is far below the saturation point and the u32 range, so neither the
\* saturation nor the cast changes it.
MAX_CONCURRENT_UNI_STREAMS == QUIC_MAX_UNSTAKED_CONCURRENT_STREAMS * 2

MAX_CONCURRENT_BIDI_STREAMS == 0

\* new_self_signed_tls_certificate(identity_keypair, gossip_host): the
\* certificate and private key derived from the signing key and the host.
new_self_signed_tls_certificate(identity_keypair, gossip_host) ==
  [cert |-> [key |-> identity_keypair, host |-> gossip_host],
   priv_key |-> identity_keypair]

\* configure_server.  The casts to u32 are the identity on every value the
\* model uses (all are below 2^31).  outcome is what the certificate generator and the TLS
\* builder answer ("ok", "CertificateError" or "TlsError").
ConfigOutcomes == {"ok", "CertificateError", "TlsError"}

configure_server(identity_keypair, gossip_host, max_concurrent_connections, outcome) ==
  IF outcome # "ok"
    THEN [ok |-> FALSE, err |-> outcome]
    ELSE LET c == new_self_signed_tls_certificate(identity_keypair, gossip_host) IN
      [ok |-> TRUE,
       config |->
         [crypto |-> [cert_chain |-> <<c.cert>>,
                      priv_key |-> c.priv_key,
                      client_cert_verifier |-> "SkipClientVerification",
                      alpn_protocols |-> <<ALPN_TPU_PROTOCOL_ID>>],
          concurrent_connections |-> max_concurrent_connections,
          use_retry |-> TRUE,
          transport |->
            [max_concurrent_uni_streams |-> MAX_CONCURRENT_UNI_STREAMS,
             stream_receive_window |-> PACKET_DATA_SIZE,
             receive_window |-> PACKET_DATA_SIZE,
             max_idle_timeout |-> Some(QUIC_MAX_TIMEOUT_MS),
             max_concurrent_bidi_streams |-> MAX_CONCURRENT_BIDI_STREAMS,
             datagram_receive_buffer_size |-> None,
             enable_segmentation_offload |-> FALSE]]]

\* Faulty variant: only the certificate chain is replaced, the private key of
\* the previous configuration stays.
set_server_config_cert_only(ep, config) ==
  IF ep.server_config = None \/ config = None
    THEN [ep EXCEPT !.server_config = config]
    ELSE [ep EXCEPT !.server_config =
            Some([ep.server_config[1] EXCEPT
                    !.crypto.cert_chain = config[1].crypto.cert_chain])]

\* quinn::Endpoint::set_server_config(Some(config)): the endpoint's server
\* configuration is replaced as a whole.
set_server_config(ep, config) == [ep EXCEPT !.server_config = config]

(***************************************************************************)
(* spawn_server                                                            *)
(***************************************************************************)
\* The arguments spawn_server is called with.
SpawnArgs ==
  {[keypair |-> "K1", gossip_host |-> "10.0.0.1",
    max_staked_connections |-> MAX_STAKED_CONNECTIONS,
    max_unstaked_connections |-> MAX_UNSTAKED_CONNECTIONS],
   [keypair |-> "K1", gossip_host |-> "10.0.0.2",
    max_staked_connections |-> MaxStakedTable,
    max_unstaked_connections |-> MaxUnstakedTable]}

NoCall == [pc |-> "idle", key |-> "K1", config |-> None]
NoConn == [state |-> "none", config |-> None, gen |-> 0]
ClosedConn == [state |-> "closed", config |-> None, gen |-> 0]
Live == {"handshaking", "open"}

InitLife ==
  /\ args \in SpawnArgs
  /\ pc = "init"
  /\ ret = "none"
  /\ nb_result = None
  /\ endpoint = None
  /\ thread = "none"
  /\ key_updater = None
  /\ exit = FALSE
  /\ accept = "none"
  /\ coalescer = "none"
  /\ conns = [c \in ConnIds |-> NoConn]
  /\ upd = [u \in Callers |-> NoCall]
  /\ installs = <<>>
  /\ last_return = None

\* The connection limit crate::nonblocking::quic::spawn_server derives from the
\* two table capacities and hands back in its result.
nb_max_concurrent_connections(max_staked_connections, max_unstaked_connections) ==
  LET concurrent == max_staked_connections + max_unstaked_connections
  IN concurrent + concurrent \div 4

\* Dropping the runtime or the endpoint: every task of the runtime is
\* cancelled and its connections are gone.
DroppedConns == [c \in ConnIds |->
                   IF conns[c].state \in Live THEN ClosedConn ELSE conns[c]]

\* let runtime = rt(): Builder::build().unwrap() panics when the runtime
\* cannot be built (no worker thread can be created).  spawn_server unwinds
\* before the initialisation is called: nothing is started, nothing returned.
SpawnRtPanic ==
  /\ pc = "init"
  /\ pc' = "done"
  /\ ret' = "panic"
  /\ UNCHANGED <<statsVars, tableVars, args, nb_result, endpoint, thread, key_updater, exit, accept,
                 coalescer, conns, upd, installs, last_return>>

\* Faulty variant: the thread is spawned before the result of the
\* initialisation is examined.
SpawnInitFail_spawns_thread(err) ==
  /\ pc = "init"
  /\ pc' = "done"
  /\ ret' = err
  /\ thread' = "running"
  /\ UNCHANGED <<statsVars, tableVars, args, nb_result, endpoint, key_updater, exit,
                 accept, coalescer, conns, upd, installs, last_return>>

\* crate::nonblocking::quic::spawn_server(...)? inside the runtime, on failure:
\* the error is returned at once, nothing else has been started.
SpawnInitFail(err) ==
  /\ pc = "init"
  /\ pc' = "done"
  /\ ret' = err
  /\ UNCHANGED <<statsVars, tableVars, args, nb_result, endpoint, thread, key_updater, exit, accept,
                 coalescer, conns, upd, installs, last_return>>

\* crate::nonblocking::quic::spawn_server(...) on success: the endpoint exists
\* with the startup configuration and the server's tasks run on the runtime.
SpawnInitOk ==
  /\ pc = "init"
  /\ LET m == nb_max_concurrent_connections(args.max_staked_connections,
                                            args.max_unstaked_connections)
         r == configure_server(args.keypair, args.gossip_host, m, "ok")
     IN /\ endpoint' = Some([server_config |-> Some(r.config)])
        /\ nb_result' = Some([max_concurrent_connections |-> m])
  /\ installs' = <<args.keypair>>
  /\ accept' = "running"
  /\ coalescer' = "running"
  /\ pc' = "spawn_thread"
  /\ UNCHANGED <<statsVars, tableVars, args, ret, thread, key_updater, exit, conns, upd, last_return>>

\* thread::Builder::new().name("solQuicServer").spawn(..).unwrap()
SpawnThread(spawned) ==
  /\ pc = "spawn_thread"
  /\ IF spawned
       THEN /\ thread' = "running"
            /\ pc' = "make_updater"
            /\ UNCHANGED <<ret, endpoint, accept, coalescer, conns>>
       ELSE \* unwrap panics: the closure, the runtime it owns and the
            \* endpoint are dropped while the panic unwinds; a task still
            \* running is cancelled, a task that has completed stays so
            /\ pc' = "done"
            /\ ret' = "panic"
            /\ endpoint' = None
            /\ accept' = IF accept = "running" THEN "cancelled" ELSE accept
            /\ coalescer' = IF coalescer = "running" THEN "cancelled" ELSE coalescer
            /\ conns' = DroppedConns
            /\ UNCHANGED thread
  /\ UNCHANGED <<statsVars, tableVars, args, nb_result, key_updater, exit, upd, installs, last_return>>

\* EndpointKeyUpdater { .. } and Ok(SpawnServerResult { .. })
SpawnReturn ==
  /\ pc = "make_updater"
  /\ key_updater' = Some([gossip_host |-> args.gossip_host,
                          max_concurrent_connections |->
                            nb_result[1].max_concurrent_connections])
  /\ ret' = "Ok"
  /\ pc' = "done"
  /\ UNCHANGED <<statsVars, tableVars, args, nb_result, endpoint, thread, exit, accept, coalescer,
                 conns, upd, installs, last_return>>

\* Faulty variant: the closure does not wait for the server task.
ThreadFinish_no_wait ==
  /\ thread = "running"
  /\ thread' = "finished"
  /\ coalescer' = IF coalescer = "running" THEN "cancelled" ELSE coalescer
  /\ conns' = DroppedConns
  /\ UNCHANGED <<statsVars, tableVars, args, pc, ret, nb_result, endpoint,
                 key_updater, exit, accept, upd, installs, last_return>>

\* The closure of the "solQuicServer" thread: runtime.block_on(result.thread)
\* returns once the server task has completed; the closure then ends and
\* drops the runtime it owns.
ThreadFinish ==
  /\ thread = "running"
  /\ accept = "done"
  /\ thread' = "finished"
  /\ coalescer' = IF coalescer = "running" THEN "cancelled" ELSE coalescer
  /\ conns' = DroppedConns
  /\ UNCHANGED <<statsVars, tableVars, args, pc, ret, nb_result, endpoint, key_updater, exit, accept,
                 upd, installs, last_return>>

RuntimeAlive == endpoint # None /\ thread # "finished"

(***************************************************************************)
(* EndpointKeyUpdater::update_key                                          *)
(***************************************************************************)
\* Faulty variant: the default capacities instead of the limit the server
\* was started with.
update_key_configure_defaults(self, key, outcome) ==
  configure_server(key, self.gossip_host,
                   MAX_STAKED_CONNECTIONS + MAX_UNSTAKED_CONNECTIONS, outcome)

\* let (config, _) = configure_server(key, self.gossip_host,
\*                                    self.max_concurrent_connections)
update_key_configure(self, key, outcome) ==
  configure_server(key, self.gossip_host, self.max_concurrent_connections, outcome)

\* Faulty variant: a failed rotation clears the endpoint's configuration.
UpdateKeyFail_clears_config(u, key, outcome) ==
  /\ key_updater # None
  /\ upd[u].pc = "idle"
  /\ outcome # "ok"
  /\ endpoint # None
  /\ endpoint' = Some(set_server_config(endpoint[1], None))
  /\ last_return' = Some(outcome)
  /\ UNCHANGED <<statsVars, tableVars, args, pc, ret, nb_result, thread, key_updater,
                 exit, accept, coalescer, conns, upd, installs>>

\* configure_server(..)? fails: the error is returned to the caller and
\* set_server_config is not reached.
UpdateKeyFail(u, key, outcome) ==
  /\ key_updater # None
  /\ upd[u].pc = "idle"
  /\ outcome # "ok"
  /\ LET r == update_key_configure(key_updater[1], key, outcome)
     IN /\ ~r.ok
        /\ last_return' = Some(r.err)
  /\ UNCHANGED <<statsVars, tableVars, args, pc, ret, nb_result, endpoint, thread,
                 key_updater, exit, accept, coalescer, conns, upd, installs>>

\* configure_server(..)? succeeds: the caller holds the new configuration.
UpdateKeyBuild(u, key) ==
  /\ key_updater # None
  /\ upd[u].pc = "idle"
  /\ (Len(installs) - 1) + Cardinality({v \in Callers : upd[v].pc = "built"})
       < MaxRotations
  /\ LET r == update_key_configure(key_updater[1], key, "ok")
     IN /\ r.ok
        /\ upd' = [upd EXCEPT ![u] = [pc |-> "built", key |-> key,
                                      config |-> Some(r.config)]]
  /\ UNCHANGED <<statsVars, tableVars, args, pc, ret, nb_result, endpoint, thread, key_updater, exit,
                 accept, coalescer, conns, installs, last_return>>

\* Faulty variant: installing the configuration resets the endpoint's
\* connections.
UpdateKeyInstall_closes_connections(u) ==
  /\ upd[u].pc = "built"
  /\ endpoint # None
  /\ endpoint' = Some(set_server_config(endpoint[1], upd[u].config))
  /\ installs' = Append(installs, upd[u].key)
  /\ upd' = [upd EXCEPT ![u].pc = "installed"]
  /\ conns' = DroppedConns
  /\ UNCHANGED <<statsVars, tableVars, args, pc, ret, nb_result, thread, key_updater,
                 exit, accept, coalescer, last_return>>

\* self.endpoint.set_server_config(Some(config))
UpdateKeyInstall(u) ==
  /\ upd[u].pc = "built"
  /\ endpoint # None
  /\ endpoint' = Some(set_server_config(endpoint[1], upd[u].config))
  /\ installs' = Append(installs, upd[u].key)
  /\ upd' = [upd EXCEPT ![u].pc = "installed"]
  /\ UNCHANGED <<statsVars, tableVars, args, pc, ret, nb_result, thread, key_updater, exit, accept,
                 coalescer, conns, last_return>>

\* Ok(())
UpdateKeyReturn(u) ==
  /\ upd[u].pc = "installed"
  /\ upd' = [upd EXCEPT ![u] = NoCall]
  /\ last_return' = Some("Ok")
  /\ UNCHANGED <<statsVars, tableVars, args, pc, ret, nb_result, endpoint, thread,
                 key_updater, exit, accept, coalescer, conns, installs>>

(***************************************************************************)
(* The server tasks on the runtime (crate::nonblocking::quic) and the      *)
(* connections of the endpoint                                             *)
(***************************************************************************)
\* A client's first packet reaches the endpoint: the handshake is served with
\* the server configuration installed at that moment.
HandshakeStart(c) ==
  /\ RuntimeAlive
  /\ endpoint[1].server_config # None
  /\ conns[c].state = "none"
  /\ \A d \in ConnIds : d < c => conns[d].state # "none"
  /\ conns' = [conns EXCEPT ![c] = [state |-> "handshaking",
                                    config |-> endpoint[1].server_config,
                                    gen |-> Len(installs)]]
  /\ UNCHANGED <<statsVars, tableVars, args, pc, ret, nb_result, endpoint, thread, key_updater, exit,
                 accept, coalescer, upd, installs, last_return>>

\* The accept loop takes the connection and spawns its driver.
AcceptConnection(c) ==
  /\ RuntimeAlive
  /\ accept = "running"
  /\ conns[c].state = "handshaking"
  /\ conns' = [conns EXCEPT ![c].state = "open"]
  /\ UNCHANGED <<statsVars, tableVars, args, pc, ret, nb_result, endpoint, thread, key_updater, exit,
                 accept, coalescer, upd, installs, last_return>>

\* The peer closes the connection, or it idles out.
CloseConnection(c) ==
  /\ conns[c].state \in Live
  /\ conns' = [conns EXCEPT ![c] = ClosedConn]
  /\ UNCHANGED <<statsVars, tableVars, args, pc, ret, nb_result, endpoint, thread, key_updater, exit,
                 accept, coalescer, upd, installs, last_return>>

\* The process sets the shared exit flag.
SetExit ==
  /\ ~exit
  /\ exit' = TRUE
  /\ UNCHANGED <<statsVars, tableVars, args, pc, ret, nb_result, endpoint, thread, key_updater,
                 accept, coalescer, conns, upd, installs, last_return>>

\* The accept loop polls the flag and ends: the server task completes.
AcceptObserveExit ==
  /\ accept = "running"
  /\ exit
  /\ accept' = "done"
  /\ UNCHANGED <<statsVars, tableVars, args, pc, ret, nb_result, endpoint, thread, key_updater, exit,
                 coalescer, conns, upd, installs, last_return>>

\* The batch coalescer polls the flag and ends.
CoalescerObserveExit ==
  /\ coalescer = "running"
  /\ exit
  /\ coalescer' = "done"
  /\ UNCHANGED <<statsVars, tableVars, args, pc, ret, nb_result, endpoint, thread, key_updater, exit,
                 accept, conns, upd, installs, last_return>>

\* A connection driver observes the flag at a select point and ends.
DriverObserveExit(c) ==
  /\ conns[c].state = "open"
  /\ exit
  /\ conns' = [conns EXCEPT ![c] = ClosedConn]
  /\ UNCHANGED <<statsVars, tableVars, args, pc, ret, nb_result, endpoint, thread, key_updater, exit,
                 accept, coalescer, upd, installs, last_return>>

InitStatsIdle ==
  /\ stats = <<>> /\ rep = <<>> /\ emitted = <<>> /\ added = <<>>
  /\ nAdds = 0 /\ lastReport = <<>>

InitTableIdle ==
  /\ staked = <<>> /\ unstaked = <<>> /\ lastOp = [kind |-> "none"]

\* Start-up, key rotation and connections while no shutdown is requested.
Init == InitLife /\ InitStatsIdle /\ InitTableIdle

Next ==
  \/ SpawnRtPanic
  \/ \E err \in {"EndpointFailed", "CertificateError", "TlsError"} : SpawnInitFail(err)
  \/ SpawnInitOk
  \/ \E spawned \in BOOLEAN : SpawnThread(spawned)
  \/ SpawnReturn
  \/ \E u \in Callers, k \in Keys \ {"K1"} :
       \E o \in ConfigOutcomes \ {"ok"} : UpdateKeyFail(u, k, o)
  \/ \E u \in Callers, k \in Keys \ {"K1"} : UpdateKeyBuild(u, k)
  \/ \E u \in Callers : UpdateKeyInstall(u)
  \/ \E u \in Callers : UpdateKeyReturn(u)
  \/ \E c \in ConnIds : HandshakeStart(c)
  \/ \E c \in ConnIds : AcceptConnection(c)
  \/ \E c \in ConnIds : CloseConnection(c)

Spec == Init /\ [][Next]_vars

\* Start-up, connections and shutdown, under the scheduling of the runtime and
\* of the operating system: a task or thread that can take a step is
\* eventually run.
NextShutdown ==
  \/ SpawnRtPanic
  \/ \E err \in {"EndpointFailed", "CertificateError", "TlsError"} : SpawnInitFail(err)
  \/ SpawnInitOk
  \/ \E spawned \in BOOLEAN : SpawnThread(spawned)
  \/ SpawnReturn
  \/ ThreadFinish
  \/ \E c \in ConnIds : HandshakeStart(c)
  \/ \E c \in ConnIds : AcceptConnection(c)
  \/ \E c \in ConnIds : CloseConnection(c)
  \/ SetExit
  \/ AcceptObserveExit
  \/ CoalescerObserveExit
  \/ \E c \in ConnIds : DriverObserveExit(c)

ShutdownSpec ==
  /\ Init
  /\ [][NextShutdown]_vars
  /\ WF_vars(AcceptObserveExit)
  /\ WF_vars(CoalescerObserveExit)
  /\ \A c \in ConnIds : WF_vars(DriverObserveExit(c))
  /\ WF_vars(ThreadFinish)
  /\ WF_vars(SpawnRtPanic \/ SpawnInitOk \/ \E err \in {"EndpointFailed", "CertificateError", "TlsError"} : SpawnInitFail(err))
  /\ WF_vars(\E spawned \in BOOLEAN : SpawnThread(spawned))
  /\ WF_vars(SpawnReturn)

(***************************************************************************)
(* StreamStats                                                             *)
(***************************************************************************)
\* The counters of struct StreamStats.
Fields ==
  {"total_connections", "total_new_connections", "total_streams",
   "total_new_streams", "total_invalid_chunks", "total_invalid_chunk_size",
   "total_packets_allocated", "total_packet_batches_allocated",
   "total_chunks_received", "total_staked_chunks_received",
   "total_unstaked_chunks_received", "total_packet_batch_send_err",
   "total_handle_chunk_to_packet_batcher_send_err",
   "total_packet_batches_sent", "total_packet_batches_none",
   "total_packets_sent_for_batching", "total_bytes_sent_for_batching",
   "total_chunks_sent_for_batching", "total_packets_sent_to_consumer",
   "total_bytes_sent_to_consumer", "total_chunks_processed_by_batcher",
   "total_stream_read_errors", "total_stream_read_timeouts", "num_evictions",
   "connection_added_from_staked_peer",
   "connection_added_from_unstaked_peer", "connection_add_failed",
   "connection_add_failed_invalid_stream_count",
   "connection_add_failed_staked_node",
   "connection_add_failed_unstaked_node", "connection_add_failed_on_pruning",
   "connection_setup_timeout", "connection_setup_error",
   "connection_setup_error_closed", "connection_setup_error_timed_out",
   "connection_setup_error_transport", "connection_setup_error_app_closed",
   "connection_setup_error_reset", "connection_setup_error_locally_closed",
   "connection_removed", "connection_remove_failed", "throttled_streams",
   "stream_load_ema", "stream_load_ema_overflow",
   "stream_load_capacity_overflow", "total_staked_packets_sent_for_batching",
   "total_unstaked_packets_sent_for_batching", "throttled_staked_streams",
   "throttled_unstaked_streams"}

\* The datapoint StreamStats::report builds: its entries in the order their
\* values are evaluated, each with the field it reads and how ("load" reads
\* the field, "swap" reads it and stores zero, in one atomic operation).
Datapoint ==
  <<[name |-> "active_connections", field |-> "total_connections", op |-> "load"],
    [name |-> "active_streams", field |-> "total_streams", op |-> "load"],
    [name |-> "new_connections", field |-> "total_new_connections", op |-> "swap"],
    [name |-> "new_streams", field |-> "total_new_streams", op |-> "swap"],
    [name |-> "evictions", field |-> "num_evictions", op |-> "swap"],
    [name |-> "connection_added_from_staked_peer", field |-> "connection_added_from_staked_peer", op |-> "swap"],
    [name |-> "connection_added_from_unstaked_peer", field |-> "connection_added_from_unstaked_peer", op |-> "swap"],
    [name |-> "connection_add_failed", field |-> "connection_add_failed", op |-> "swap"],
    [name |-> "connection_add_failed_invalid_stream_count", field |-> "connection_add_failed_invalid_stream_count", op |-> "swap"],
    [name |-> "connection_add_failed_staked_node", field |-> "connection_add_failed_staked_node", op |-> "swap"],
    [name |-> "connection_add_failed_unstaked_node", field |-> "connection_add_failed_unstaked_node", op |-> "swap"],
    [name |-> "connection_add_failed_on_pruning", field |-> "connection_add_failed_on_pruning", op |-> "swap"],
    [name |-> "connection_removed", field |-> "connection_removed", op |-> "swap"],
    [name |-> "connection_remove_failed", field |-> "connection_remove_failed", op |-> "swap"],
    [name |-> "connection_setup_timeout", field |-> "connection_setup_timeout", op |-> "swap"],
    [name |-> "connection_setup_error", field |-> "connection_setup_error", op |-> "swap"],
    [name |-> "connection_setup_error_timed_out", field |-> "connection_setup_error_timed_out", op |-> "swap"],
    [name |-> "connection_setup_error_closed", field |-> "connection_setup_error_closed", op |-> "swap"],
    [name |-> "connection_setup_error_transport", field |-> "connection_setup_error_transport", op |-> "swap"],
    [name |-> "connection_setup_error_app_closed", field |-> "connection_setup_error_app_closed", op |-> "swap"],
    [name |-> "connection_setup_error_reset", field |-> "connection_setup_error_reset", op |-> "swap"],
    [name |-> "connection_setup_error_locally_closed", field |-> "connection_setup_error_locally_closed", op |-> "swap"],
    [name |-> "invalid_chunk", field |-> "total_invalid_chunks", op |-> "swap"],
    [name |-> "invalid_chunk_size", field |-> "total_invalid_chunk_size", op |-> "swap"],
    [name |-> "packets_allocated", field |-> "total_packets_allocated", op |-> "swap"],
    [name |-> "packet_batches_allocated", field |-> "total_packet_batches_allocated", op |-> "swap"],
    [name |-> "packets_sent_for_batching", field |-> "total_packets_sent_for_batching", op |-> "swap"],
    [name |-> "staked_packets_sent_for_batching", field |-> "total_staked_packets_sent_for_batching", op |-> "swap"],
    [name |-> "unstaked_packets_sent_for_batching", field |-> "total_unstaked_packets_sent_for_batching", op |-> "swap"],
    [name |-> "bytes_sent_for_batching", field |-> "total_bytes_sent_for_batching", op |-> "swap"],
    [name |-> "chunks_sent_for_batching", field |-> "total_chunks_sent_for_batching", op |-> "swap"],
    [name |-> "packets_sent_to_consumer", field |-> "total_packets_sent_to_consumer", op |-> "swap"],
    [name |-> "bytes_sent_to_consumer", field |-> "total_bytes_sent_to_consumer", op |-> "swap"],
    [name |-> "chunks_processed_by_batcher", field |-> "total_chunks_processed_by_batcher", op |-> "swap"],
    [name |-> "chunks_received", field |-> "total_chunks_received", op |-> "swap"],
    [name |-> "staked_chunks_received", field |-> "total_staked_chunks_received", op |-> "swap"],
    [name |-> "unstaked_chunks_received", field |-> "total_unstaked_chunks_received", op |-> "swap"],
    [name |-> "packet_batch_send_error", field |-> "total_packet_batch_send_err", op |-> "swap"],
    [name |-> "handle_chunk_to_packet_batcher_send_error", field |-> "total_handle_chunk_to_packet_batcher_send_err", op |-> "swap"],
    [name |-> "packet_batches_sent", field |-> "total_packet_batches_sent", op |-> "swap"],
    [name |-> "packet_batch_empty", field |-> "total_packet_batches_none", op |-> "swap"],
    [name |-> "stream_read_errors", field |-> "total_stream_read_errors", op |-> "swap"],
    [name |-> "stream_read_timeouts", field |-> "total_stream_read_timeouts", op |-> "swap"],
    [name |-> "throttled_streams", field |-> "throttled_streams", op |-> "swap"],
    [name |-> "stream_load_ema", field |-> "stream_load_ema", op |-> "load"],
    [name |-> "stream_load_ema_overflow", field |-> "stream_load_ema_overflow", op |-> "load"],
    [name |-> "stream_load_capacity_overflow", field |-> "stream_load_capacity_overflow", op |-> "load"],
    [name |-> "throttled_unstaked_streams", field |-> "throttled_unstaked_streams", op |-> "swap"],
    [name |-> "throttled_staked_streams", field |-> "throttled_staked_streams", op |-> "swap"]>>

Reporters == {"r1", "r2"}
IdleReport == [pos |-> 0, vals |-> <<>>]

\* #[derive(Default)]: every counter starts at zero.
InitStats ==
  /\ stats = [f \in Fields |-> 0]
  /\ rep = [r \in Reporters |-> IdleReport]
  /\ emitted = [f \in Fields |-> 0]
  /\ added = [f \in Fields |-> 0]
  /\ nAdds = 0
  /\ lastReport = [tick |-> 0, values |-> <<>>]

\* Faulty variant: the value a swap returns is dropped.
entry_value_dropped(st, e) == IF e.op = "swap" THEN 0 ELSE st[e.field]

\* The value an entry of the datapoint evaluates to: load and swap both
\* return the value the field held.
entry_value(st, e) == st[e.field]

\* Faulty variant: every field is swapped to zero.
entry_effect_always_swap(st, e) == [st EXCEPT ![e.field] = 0]

\* Faulty variant: no field is reset.
entry_effect_never_swap(st, e) == st

\* What evaluating an entry does to the counters.
entry_effect(st, e) == IF e.op = "swap" THEN [st EXCEPT ![e.field] = 0] ELSE st

\* AtomicUsize::fetch_add(1) and fetch_sub(1) by the tasks of the server.
fetch_add(st, f) == [st EXCEPT ![f] = @ + 1]
fetch_sub(st, f) == [st EXCEPT ![f] = @ - 1]

\* StreamStats::report with no other thread touching the counters: the entries
\* are evaluated in order, then the datapoint is submitted.
RECURSIVE report_from(_, _, _)
report_from(st, i, vals) ==
  IF i > Len(Datapoint)
    THEN [stats |-> st, values |-> vals]
    ELSE report_from(entry_effect(st, Datapoint[i]), i + 1,
                     Append(vals, <<Datapoint[i].name, entry_value(st, Datapoint[i])>>))

report(st) == report_from(st, 1, <<>>)

\* A datapoint is submitted to the metrics sink; tick tells two successive
\* datapoints with the same values apart (they carry their time).
Submit(values) == [tick |-> 1 - lastReport.tick, values |-> values]

\* A task of the server counts an event.
Increment(f) ==
  /\ nAdds < MaxAdds
  /\ nAdds' = nAdds + 1
  /\ stats' = fetch_add(stats, f)
  /\ UNCHANGED <<lifeVars, tableVars, rep, emitted, added, lastReport>>

\* A connection or stream ends: its gauge goes down.
Decrement(f) ==
  /\ stats[f] > 0
  /\ stats' = fetch_sub(stats, f)
  /\ UNCHANGED <<lifeVars, tableVars, rep, emitted, added, nAdds, lastReport>>

\* StreamStats::report(name), alone.
Report ==
  /\ LET r == report(stats)
     IN /\ stats' = r.stats
        /\ lastReport' = Submit(r.values)
  /\ UNCHANGED <<lifeVars, tableVars, rep, emitted, added, nAdds>>

InitReport ==
  /\ InitLife
  /\ args.gossip_host = "10.0.0.1"
  /\ InitStats
  /\ InitTableIdle

NextReport ==
  \/ \E f \in Fields : Increment(f)
  \/ \E f \in {"total_connections", "total_streams"} : Decrement(f)
  \/ Report

ReportSpec == InitReport /\ [][NextReport]_vars

\* Reports running concurrently with each other and with the counting tasks:
\* each evaluation of an entry is one step.
ConcFields ==
  {"total_new_connections", "stream_load_ema_overflow", "throttled_staked_streams"}

ConcIncrement(f) ==
  /\ nAdds < MaxConcAdds
  /\ nAdds' = nAdds + 1
  /\ stats' = fetch_add(stats, f)
  /\ added' = [added EXCEPT ![f] = @ + 1]
  /\ UNCHANGED <<lifeVars, tableVars, rep, emitted, lastReport>>

\* One entry of the datapoint is evaluated.
ReportStep(r) ==
  /\ rep[r].pos < Len(Datapoint)
  /\ LET e == Datapoint[rep[r].pos + 1]
     IN /\ rep' = [rep EXCEPT ![r] = [pos |-> rep[r].pos + 1,
                                      vals |-> Append(rep[r].vals,
                                                      <<e.name, entry_value(stats, e)>>)]]
        /\ stats' = entry_effect(stats, e)
  /\ UNCHANGED <<lifeVars, tableVars, emitted, added, nAdds, lastReport>>

\* The fields the report swaps to zero, and the place of a field's entry.
SwapFields == {Datapoint[i].field : i \in {j \in 1..Len(Datapoint) : Datapoint[j].op = "swap"}}
EntryIndex == [f \in Fields |-> CHOOSE i \in 1..Len(Datapoint) : Datapoint[i].field = f]
EntryOf(f) == EntryIndex[f]

\* All entries are evaluated: the datapoint is submitted.  Of the sink only
\* the total of the values it received for each swapped field is kept.
ReportEmit(r) ==
  /\ rep[r].pos = Len(Datapoint)
  /\ emitted' = [f \in Fields |->
                   IF f \in SwapFields
                     THEN emitted[f] + rep[r].vals[EntryOf(f)][2] ELSE emitted[f]]
  /\ rep' = [rep EXCEPT ![r] = IdleReport]
  /\ UNCHANGED <<lifeVars, tableVars, stats, added, nAdds, lastReport>>

NextConc ==
  \/ \E f \in ConcFields : ConcIncrement(f)
  \/ \E r \in Reporters : ReportStep(r)
  \/ \E r \in Reporters : ReportEmit(r)

ConcSpec == InitReport /\ [][NextConc]_vars

(***************************************************************************)
(* ConnectionTable (crate::nonblocking::quic), from the design document    *)
(***************************************************************************)
Identities == {"A", "B", "C"}

\* A newcomer: its identity and the stake the classifier found for it
\* (0: unstaked).
ConnMeta == [identity : Identities, stake : 0..MaxStake]

\* The tables hold their entries in the order they were admitted, oldest first.
InitTable ==
  /\ staked = <<>>
  /\ unstaked = <<>>
  /\ lastOp = [kind |-> "none"]

RemoveAt(tbl, i) == [j \in 1..(Len(tbl) - 1) |-> IF j < i THEN tbl[j] ELSE tbl[j + 1]]

CountIn(tbl, identity) == Cardinality({i \in 1..Len(tbl) : tbl[i].identity = identity})
PeerCount(st, un, identity) == CountIn(st, identity) + CountIn(un, identity)

\* Faulty variant: an entry whose stake equals the newcomer's may be evicted.
RECURSIVE FindEvictee_not_strict(_, _, _, _)
FindEvictee_not_strict(tbl, stake, i, best) ==
  IF i > Len(tbl) THEN best
  ELSE IF tbl[i].stake <= stake /\ (best = 0 \/ tbl[i].stake < tbl[best].stake)
    THEN FindEvictee_not_strict(tbl, stake, i + 1, i)
    ELSE FindEvictee_not_strict(tbl, stake, i + 1, best)

\* The entry to evict for a newcomer with the given stake: a scan, oldest
\* first, for the least stake below the newcomer's (0: there is none).
RECURSIVE FindEvictee(_, _, _, _)
FindEvictee(tbl, stake, i, best) ==
  IF i > Len(tbl) THEN best
  ELSE IF tbl[i].stake < stake /\ (best = 0 \/ tbl[i].stake < tbl[best].stake)
    THEN FindEvictee(tbl, stake, i + 1, i)
    ELSE FindEvictee(tbl, stake, i + 1, best)

\* try_admit(conn_meta)
try_admit(st, un, meta) ==
  LET entry == [identity |-> meta.identity, stake |-> meta.stake] IN
  IF PeerCount(st, un, meta.identity) >= MaxPerPeer
    THEN [outcome |-> "RejectPerPeer", staked |-> st, unstaked |-> un, evicted |-> None]
  ELSE IF meta.stake = 0
    THEN IF Len(un) < MaxUnstakedTable
           THEN [outcome |-> "Admit", staked |-> st, unstaked |-> Append(un, entry),
                 evicted |-> None]
           ELSE [outcome |-> "Admit", staked |-> st,
                 unstaked |-> Append(Tail(un), entry), evicted |-> Some(Head(un))]
  ELSE IF Len(st) < MaxStakedTable
    THEN [outcome |-> "Admit", staked |-> Append(st, entry), unstaked |-> un,
          evicted |-> None]
  ELSE LET i == FindEvictee(st, meta.stake, 1, 0) IN
    IF i # 0
      THEN [outcome |-> "Admit", staked |-> Append(RemoveAt(st, i), entry),
            unstaked |-> un, evicted |-> Some(st[i])]
      ELSE [outcome |-> "RejectCapacityPruning", staked |-> st, unstaked |-> un,
            evicted |-> None]

TryAdmit(meta) ==
  /\ LET r == try_admit(staked, unstaked, meta)
     IN /\ staked' = r.staked
        /\ unstaked' = r.unstaked
        /\ lastOp' = [kind |-> "try_admit", newcomer |-> meta,
                      outcome |-> r.outcome, evicted |-> r.evicted # None]
  /\ UNCHANGED <<lifeVars, statsVars>>

\* remove(conn_id), for a connection of the staked table
RemoveStaked(i) ==
  /\ i \in 1..Len(staked)
  /\ staked' = RemoveAt(staked, i)
  /\ lastOp' = [kind |-> "remove"]
  /\ UNCHANGED <<lifeVars, statsVars, unstaked>>

\* remove(conn_id), for a connection of the unstaked table
RemoveUnstaked(i) ==
  /\ i \in 1..Len(unstaked)
  /\ unstaked' = RemoveAt(unstaked, i)
  /\ lastOp' = [kind |-> "remove"]
  /\ UNCHANGED <<lifeVars, statsVars, staked>>

InitTableSpec ==
  /\ InitLife
  /\ args.gossip_host = "10.0.0.1"
  /\ InitStatsIdle
  /\ InitTable

NextTable ==
  \/ \E meta \in ConnMeta : TryAdmit(meta)
  \/ \E i \in 1..MaxStakedTable : RemoveStaked(i)
  \/ \E i \in 1..MaxUnstakedTable : RemoveUnstaked(i)

TableSpec == InitTableSpec /\ [][NextTable]_vars

(***************************************************************************)
(* Properties of the connection table                                      *)
(***************************************************************************)
\* This step is try_admit of a staked newcomer arriving at a full staked table.
StakedArrivalAtFullTable ==
  /\ lastOp'.kind = "try_admit"
  /\ <<staked, unstaked, lastOp>>' # <<staked, unstaked, lastOp>>
  /\ lastOp'.newcomer.stake > 0
  /\ Len(staked) = MaxStakedTable

\* What the step must be: with an entry of stake below the newcomer's, the
\* one of least stake (the oldest of them) goes and the newcomer comes last;
\* with none, the newcomer is rejected and the table stays.
StakeWeightedEviction ==
  LET n == lastOp'.newcomer
      lower == {i \in 1..Len(staked) : staked[i].stake < n.stake}
  IN IF lower # {}
       THEN \E i \in lower :
              /\ \A j \in lower :
                   \/ staked[i].stake < staked[j].stake
                   \/ staked[i].stake = staked[j].stake /\ i <= j
              /\ lastOp'.evicted
              /\ lastOp'.outcome = "Admit"
              /\ staked' = Append(RemoveAt(staked, i),
                                  [identity |-> n.identity, stake |-> n.stake])
              /\ unstaked' = unstaked
       ELSE /\ lastOp'.outcome = "RejectCapacityPruning"
            /\ ~lastOp'.evicted
            /\ staked' = staked
            /\ unstaked' = unstaked

\* C7 as stated: every staked arrival at a full staked table is decided by the
\* stakes alone.
C7_EvictionByStakeAlone ==
  [][StakedArrivalAtFullTable => StakeWeightedEviction]_vars

\* C7 amended: a staked arrival at a full staked table whose identity holds
\* fewer than max_connections_per_peer connections is decided by the stakes.
C7_EvictionBelowPerPeerCap ==
  [][(StakedArrivalAtFullTable
       /\ PeerCount(staked, unstaked, lastOp'.newcomer.identity) < MaxPerPeer)
      => StakeWeightedEviction]_vars

\* S4 of the design document, with small stakes: a newcomer of stake 2 arrived
\* at a full table, evicted an entry (of stake 1: nothing of less than 2 is
\* left) and stands last, beside an entry of stake 3.
C7_Witness ==
  /\ lastOp.kind = "try_admit"
  /\ lastOp.outcome = "Admit"
  /\ lastOp.evicted
  /\ lastOp.newcomer.stake = 2
  /\ Len(staked) = MaxStakedTable
  /\ staked[Len(staked)].stake = 2
  /\ \A i \in 1..Len(staked) : staked[i].stake >= 2
  /\ \E i \in 1..Len(staked) : staked[i].stake = 3

(***************************************************************************)
(* Properties of StreamStats::report                                       *)
(***************************************************************************)
Gauges == {"total_connections", "total_streams", "stream_load_ema"}
OverflowCounters == {"stream_load_ema_overflow", "stream_load_capacity_overflow"}

\* The value a datapoint carries under a name, and for a field.
ValueOf(values, name) ==
  values[CHOOSE i \in 1..Len(values) : values[i][1] = name][2]
ValueFor(values, f) == ValueOf(values, Datapoint[EntryOf(f)].name)

Reported == lastReport'.tick # lastReport.tick

\* C3: a report leaves the three gauges as they were and the datapoint carries
\* their values: active_connections = total_connections, active_streams =
\* total_streams, stream_load_ema.
C3_GaugesReadWithoutReset ==
  [][Reported =>
       /\ Len(lastReport'.values) = Len(Datapoint)
       /\ \A g \in Gauges : stats'[g] = stats[g]
       /\ ValueOf(lastReport'.values, "active_connections") = stats["total_connections"]
       /\ ValueOf(lastReport'.values, "active_streams") = stats["total_streams"]
       /\ ValueOf(lastReport'.values, "stream_load_ema") = stats["stream_load_ema"]]_vars

\* A report was made while a connection was counted: the gauge still counts it.
C3_Witness ==
  /\ lastReport.values # <<>>
  /\ ValueOf(lastReport.values, "active_connections") = 1
  /\ stats["total_connections"] = 1

\* C4 as stated: after a report every counter that is not a gauge, the two
\* stream-load overflow counters included, is zero, and the datapoint carries
\* the value it held.
C4_EveryNonGaugeReset ==
  [][Reported =>
       \A f \in Fields \ Gauges :
         /\ stats'[f] = 0
         /\ ValueFor(lastReport'.values, f) = stats[f]]_vars

\* C4 amended: after a report every counter other than the three gauges and
\* the two stream-load overflow counters is zero and the datapoint carries the
\* value it held; the two overflow counters are reported and keep their value.
C4_DeltaCountersReset ==
  [][Reported =>
       /\ \A f \in Fields \ (Gauges \cup OverflowCounters) :
            /\ stats'[f] = 0
            /\ ValueFor(lastReport'.values, f) = stats[f]
       /\ \A f \in OverflowCounters :
            /\ stats'[f] = stats[f]
            /\ ValueFor(lastReport'.values, f) = stats[f]]_vars

\* A report carried a counted new connection and left the counter at zero.
C4_Witness ==
  /\ lastReport.values # <<>>
  /\ ValueOf(lastReport.values, "new_connections") = 1
  /\ stats["total_new_connections"] = 0
  /\ nAdds = 1

\* The values reports in progress have swapped out of field f and not yet
\* submitted.
RECURSIVE PendingIn(_, _)
PendingIn(rs, f) ==
  IF rs = {} THEN 0
  ELSE LET r == CHOOSE x \in rs : TRUE
       IN (IF rep[r].pos >= EntryOf(f) THEN rep[r].vals[EntryOf(f)][2] ELSE 0)
          + PendingIn(rs \ {r}, f)
Pending(f) == PendingIn(Reporters, f)

\* C8: for every counter the report swaps, what the sink received, what the
\* reports in progress hold and what the counter holds add up to what was
\* added; with no report in progress, what the sink received plus the counter
\* is what was added.
C8_NoIncrementLostOrDoubled ==
  \A f \in SwapFields :
    /\ emitted[f] + Pending(f) + stats[f] = added[f]
    /\ (\A r \in Reporters : rep[r].pos = 0) => emitted[f] + stats[f] = added[f]

\* Two reports in progress; one has already swapped total_new_connections,
\* which was counted again since, and has not reached the later entries: its
\* datapoint is not a snapshot of one instant.
C8_Witness ==
  \E r1, r2 \in Reporters :
    /\ r1 # r2
    /\ rep[r1].pos >= EntryOf("total_new_connections")
    /\ rep[r1].pos < EntryOf("throttled_staked_streams")
    /\ rep[r1].vals[EntryOf("total_new_connections")][2] = 1
    /\ stats["total_new_connections"] = 1
    /\ added["total_new_connections"] = 2
    /\ rep[r2].pos > 0

(***************************************************************************)
(* Properties of start-up, key rotation and shutdown                       *)
(***************************************************************************)
InitErrors == {"EndpointFailed", "CertificateError", "TlsError"}
RotationErrors == {"CertificateError", "TlsError"}

\* The configuration configure_server builds from key k with the gossip host
\* and the connection limit the server was started with.
StartedConfig(k) ==
  configure_server(k, args.gossip_host,
                   nb_max_concurrent_connections(args.max_staked_connections,
                                                 args.max_unstaked_connections),
                   "ok").config

InstalledConfig == endpoint[1].server_config

\* C1: a call of update_key that fails to build a configuration returns the
\* error and does not touch the endpoint: in the step in which a caller gets
\* an error, the installed configuration and the history of
\* set_server_config calls stay as they were.
C1_FailedRotationKeepsConfig ==
  [][(last_return' # last_return /\ last_return'[1] \in RotationErrors)
       => /\ endpoint' = endpoint
          /\ installs' = installs
          /\ upd' = upd]_vars

\* A failed rotation after an earlier successful one: the configuration of
\* the successful one is still installed.
C1_Witness ==
  /\ endpoint # None
  /\ last_return = Some("CertificateError")
  /\ Len(installs) = 2
  /\ InstalledConfig = Some(StartedConfig(installs[2]))

\* C2: no step of update_key changes any connection; a connection keeps the
\* configuration its handshake was served with until it is closed; and
\* a handshake is served with the configuration of the latest
\* set_server_config (the startup one if there was none), so a handshake that
\* starts after update_key(K2) returned never gets an earlier key.
C2_RotationKeepsConnections ==
  [][/\ (upd' # upd => conns' = conns)
     /\ \A c \in ConnIds :
          /\ (conns[c].state \in Live /\ conns'[c].state # "closed") =>
               /\ conns'[c].config = conns[c].config
               /\ conns'[c].gen = conns[c].gen
               /\ conns'[c].state \in Live
          /\ (conns[c].state = "none" /\ conns'[c].state # "none") =>
               /\ conns'[c].state = "handshaking"
               /\ conns'[c].gen = Len(installs)
               /\ conns'[c].config = Some(StartedConfig(installs[Len(installs)]))]_vars

\* Connection 1 was established under K1 and is still open after the rotation
\* to K2 returned; connection 2 was established afterwards, under K2.
C2_Witness ==
  /\ installs = <<"K1", "K2">>
  /\ \A u \in Callers : upd[u].pc = "idle"
  /\ last_return = Some("Ok")
  /\ conns[1].state = "open"
  /\ conns[1].config = Some(StartedConfig("K1"))
  /\ conns[2].state = "open"
  /\ conns[2].config = Some(StartedConfig("K2"))

\* C5: when the initialisation fails spawn_server returns the error, and then
\* no thread was spawned and no key updater exists; Ok is returned only after
\* a successful initialisation, with the thread spawned and the updater made.
\* spawn_server ends without an initialised endpoint only by one of the three
\* errors or by the panic of rt(), and the panic returns nothing either.
C5_StartupErrorAborts ==
  /\ ret \in InitErrors =>
       /\ pc = "done"
       /\ thread = "none"
       /\ key_updater = None
       /\ nb_result = None
       /\ endpoint = None
  /\ ret = "Ok" =>
       /\ nb_result # None
       /\ endpoint # None
       /\ thread # "none"
       /\ key_updater # None
  /\ (pc = "done" /\ nb_result = None) => ret \in InitErrors \cup {"panic"}
  /\ ret = "panic" => (pc = "done" /\ thread = "none" /\ key_updater = None)
  /\ (key_updater # None \/ thread # "none") => nb_result # None

C5_Witness ==
  /\ pc = "done"
  /\ ret = "TlsError"
  /\ thread = "none"

\* C9: every connection is served with one whole configuration, the one
\* configure_server builds from a single key that was installed; and once every
\* update_key call has returned the installed configuration is the one built
\* from the key of the latest set_server_config.
C9_AtomicInstall ==
  /\ \A c \in ConnIds :
       conns[c].state \in Live =>
         /\ conns[c].gen \in 1..Len(installs)
         /\ conns[c].config = Some(StartedConfig(installs[conns[c].gen]))
  /\ (endpoint # None /\ \A u \in Callers : upd[u].pc = "idle") =>
       InstalledConfig = Some(StartedConfig(installs[Len(installs)]))

\* Two overlapping calls: K2 was built first and installed last, K3 was
\* installed in between and served a handshake.
C9_Witness ==
  /\ installs = <<"K1", "K3", "K2">>
  /\ \A u \in Callers : upd[u].pc = "idle"
  /\ last_return = Some("Ok")
  /\ InstalledConfig = Some(StartedConfig("K2"))
  /\ \E c \in ConnIds : conns[c].state = "open" /\ conns[c].gen = 2

\* C10: the installed configuration always has the connection limit and the
\* gossip host the server was started with and the fixed transport settings.
C10_RotationChangesOnlyCredentials ==
  endpoint # None =>
    /\ InstalledConfig # None
    /\ LET cfg == InstalledConfig[1]
           k == cfg.crypto.priv_key
       IN /\ k \in Keys
          /\ cfg.crypto.cert_chain = <<[key |-> k, host |-> args.gossip_host]>>
          /\ cfg.concurrent_connections = nb_result[1].max_concurrent_connections
          /\ cfg.concurrent_connections = StartedConfig(args.keypair).concurrent_connections
          /\ cfg.crypto.alpn_protocols = <<"solana-tpu">>
          /\ cfg.use_retry = TRUE
          /\ cfg.transport.max_idle_timeout = Some(QUIC_MAX_TIMEOUT_MS)
          /\ cfg.transport.max_concurrent_uni_streams
               = 2 * QUIC_MAX_UNSTAKED_CONCURRENT_STREAMS
          /\ cfg.transport.max_concurrent_bidi_streams = 0
          /\ cfg.transport.stream_receive_window = PACKET_DATA_SIZE
          /\ cfg.transport.receive_window = PACKET_DATA_SIZE
          /\ cfg.transport.datagram_receive_buffer_size = None
          /\ cfg.transport.enable_segmentation_offload = FALSE
          /\ cfg.transport = StartedConfig(args.keypair).transport
          /\ cfg.crypto.client_cert_verifier = "SkipClientVerification"
          /\ \A cert \in ClientCerts : verify_client_cert(cert, <<>>, 0) = "Ok"

C10_Witness ==
  /\ endpoint # None
  /\ Len(installs) = 3
  /\ InstalledConfig # None
  /\ InstalledConfig[1].crypto.priv_key = "K3"
  /\ args.max_staked_connections = MAX_STAKED_CONNECTIONS

\* C6: the thread ends only after the server task has completed; and once the
\* exit flag is set the accept task, the coalescer and every connection driver
\* end, and the running thread finishes.  (When spawning the thread panics
\* there is no thread; the tasks are then cancelled with the runtime.)
C6_ShutdownStops ==
  /\ [](thread = "finished" => accept = "done")
  /\ ((exit /\ thread = "running") ~> (thread = "finished"))
  /\ ((exit /\ accept = "running") ~> (accept # "running"))
  /\ ((exit /\ accept = "running" /\ thread = "running") ~> (accept = "done"))
  /\ ((exit /\ coalescer = "running") ~> (coalescer # "running"))
  /\ \A c \in ConnIds : ((exit /\ conns[c].state = "open") ~> (conns[c].state = "closed"))

C6_Witness ==
  /\ exit
  /\ thread = "finished"
  /\ accept = "done"
  /\ coalescer = "done"
  /\ \E c \in ConnIds : conns[c].state = "closed"

====
